---- MODULE Spec2Model ----
(***************************************************************************)
(* A model of autonetops_discovery: the Site/Device entity relationship    *)
(* (classes.py), the device-communication Collector and its two drivers    *)
(* (connector.py), and the inventory reconciliation (netbox_classes.py).   *)
(*                                                                         *)
(* Each part has its own specification over the shared variables:          *)
(* SpecEntity, SpecCollector and SpecReconcile; Spec interleaves them.     *)
(***************************************************************************)
EXTENDS Integers, Sequences, FiniteSets, TLC

(* ---- bounds of the model ---- *)
MaxLen == 3
MaxNodes == 3
MaxSessions == 2
MaxRecords == 2

(* ---- the entities ---- *)
Sites == {"lab-a", "lab-b"}
Devices == {"leaf1", "leaf2"}
Objects == Sites \cup Devices
None == "None"

VARIABLES
  devices,     \* Site.devices: for each Site, its list of Devices (classes.py:23)
  site,        \* Device.site: for each Device, its Site or None (classes.py:59)
  last,        \* the last relationship call: what it was and how it ended
  collectors,  \* the NetworkCollector instances built so far
  drivers,     \* the driver instances: kind and handle (NapalmDriver.device,
               \* NetmikoDriver.conn; 0 is None, else an index of sessions)
  sessions,    \* the transport sessions: "unopened", "open" or "closed"
  call,        \* the last call made on a Collector and how it ended
  scope,       \* the last use of a Collector as a with-block
  nb,          \* what netbox_classes.nb is bound to
  nbSites,     \* the inventory's site records
  nbDevices,   \* the inventory's device records
  dev,         \* the attributes of the Device being reconciled
  siteObj,     \* the attributes of the Site being reconciled
  pass,        \* the last reconcile pass: its calls and how it ended
  loader,      \* clab_loader: the topology's default kind, device_list, and the
               \* exception get_device_list ended with
  ndev,        \* the attributes of the Device that collects its facts
  info         \* the last get_network_info call and how it ended

entityVars == <<devices, site, last>>
collectorVars == <<collectors, drivers, sessions, call, scope>>
reconcileVars == <<nb, nbSites, nbDevices, dev, siteObj, pass>>
loaderVars == <<loader>>
infoVars == <<ndev, info>>
vars == <<entityVars, collectorVars, reconcileVars, loaderVars, infoVars>>

NoCall == [op |-> "none", self |-> None, arg |-> None, exc |-> "none",
           before |-> <<>>, roundtrip |-> FALSE]

\* a type test that any entity passes
isinstance_object(x) == x \in Objects

isinstance_Site(x) == x \in Sites
isinstance_Device(x) == x \in Devices

\* list.append(x)
list_append(l, x) == Append(l, x)

\* x in list
list_contains(l, x) == \E i \in 1..Len(l) : l[i] = x

\* list.remove(x): drops the first occurrence of x (the caller checks x is in l)
list_remove(l, x) ==
  LET i == CHOOSE k \in 1..Len(l) : l[k] = x /\ \A j \in 1..(k-1) : l[j] # x
  IN  SubSeq(l, 1, i-1) \o SubSeq(l, i+1, Len(l))

\* how often x occurs in l
Count(l, x) == Cardinality({i \in 1..Len(l) : l[i] = x})

\* Site.device_add(device)
device_add(s, x) ==
  /\ s \in Sites
  /\ IF isinstance_Device(x)
       THEN /\ Len(devices[s]) < MaxLen
            /\ devices' = [devices EXCEPT ![s] = list_append(@, x)]
            /\ last' = [op |-> "device_add", self |-> s, arg |-> x, exc |-> "none",
                        before |-> devices[s], roundtrip |-> FALSE]
       ELSE /\ devices' = devices
            /\ last' = [op |-> "device_add", self |-> s, arg |-> x, exc |-> "TypeError",
                        before |-> devices[s], roundtrip |-> FALSE]
  /\ site' = site
  /\ UNCHANGED <<collectorVars, reconcileVars, loaderVars, infoVars>>

\* Site.device_remove(device); list.remove raises ValueError when the device is
\* not in the list
device_remove(s, x) ==
  /\ s \in Sites
  /\ IF isinstance_Device(x)
       THEN IF list_contains(devices[s], x)
              THEN /\ devices' = [devices EXCEPT ![s] = list_remove(@, x)]
                   /\ last' = [op |-> "device_remove", self |-> s, arg |-> x,
                               exc |-> "none",
                               before |-> IF last.op = "join_site" /\ last.exc = "none"
                                             /\ last.self = x /\ last.arg = s
                                          THEN last.before ELSE devices[s],
                               roundtrip |-> last.op = "join_site" /\ last.exc = "none"
                                             /\ last.self = x /\ last.arg = s]
              ELSE /\ devices' = devices
                   /\ last' = [op |-> "device_remove", self |-> s, arg |-> x,
                               exc |-> "ValueError", before |-> devices[s],
                               roundtrip |-> FALSE]
       ELSE /\ devices' = devices
            /\ last' = [op |-> "device_remove", self |-> s, arg |-> x,
                        exc |-> "TypeError", before |-> devices[s], roundtrip |-> FALSE]
  /\ site' = site
  /\ UNCHANGED <<collectorVars, reconcileVars, loaderVars, infoVars>>

\* Device.join_site(site): sets the back-reference, then site.device_add(self)
join_site(d, x) ==
  /\ d \in Devices
  /\ IF isinstance_Site(x)
       THEN /\ Len(devices[x]) < MaxLen
            /\ site' = [site EXCEPT ![d] = x]
            /\ devices' = [devices EXCEPT ![x] = list_append(@, d)]
            /\ last' = [op |-> "join_site", self |-> d, arg |-> x, exc |-> "none",
                        before |-> devices[x], roundtrip |-> FALSE]
       ELSE /\ site' = site
            /\ devices' = devices
            /\ last' = [op |-> "join_site", self |-> d, arg |-> x, exc |-> "TypeError",
                        before |-> <<>>, roundtrip |-> FALSE]
  /\ UNCHANGED <<collectorVars, reconcileVars, loaderVars, infoVars>>

InitEntity ==
  /\ devices = [s \in Sites |-> <<>>]
  /\ site = [d \in Devices |-> None]
  /\ last = NoCall

(* ---- claims about the entity relationship ---- *)

\* C1: join_site(d, s) directly followed by device_remove(s, d) leaves s's device
\* collection as it was before the join and leaves d without a site.
C1_RoundTrip ==
  (last.op = "device_remove" /\ last.roundtrip)
    => (devices[last.self] = last.before /\ site[last.arg] = None)

\* C2: each Device occurs in the device collection of at most one Site, and
\* at most once there.
C2_OneSiteOnce ==
  \A d \in Devices :
    /\ \A s \in Sites : Count(devices[s], d) <= 1
    /\ \A s, t \in Sites :
         (list_contains(devices[s], d) /\ list_contains(devices[t], d)) => s = t

\* the call recorded in l was given an argument of the wrong entity kind
WrongKind(l) ==
  \/ l.op = "join_site" /\ l.arg \notin Sites
  \/ l.op \in {"device_add", "device_remove"} /\ l.arg \notin Devices

\* C14: join_site with a non-Site, and device_add or device_remove with a
\* non-Device, raise TypeError and leave every Site's device collection and every
\* Device's site reference as they were.
C14_TypeMismatch ==
  [][WrongKind(last') => (last'.exc = "TypeError" /\ devices' = devices
                          /\ site' = site)]_vars
C14_Witness ==
  /\ last.op = "device_remove" /\ last.exc = "TypeError"
  /\ last.arg \in Sites /\ devices[last.self] # <<>>

\* C16: in every state reached by join_site, device_add and device_remove calls,
\* a Device is in the device collection of Site s exactly when its site
\* reference is s.
C16_LinkConsistent ==
  \A d \in Devices, s \in Sites : list_contains(devices[s], d) <=> site[d] = s

(* ---- Python values returned by the retrieval calls ---- *)
PyNone == [type |-> "NoneType"]
PyStr(s) == [type |-> "str", s |-> s]
PyList(items) == [type |-> "list", items |-> items]
PyDict(d) == [type |-> "dict", d |-> d]
EmptyMap == PyDict(<<>>)
EmptySeq == PyList(<<>>)
EmptyStr == PyStr("")

isinstance_list(v) == v.type = "list"

\* truth value of a Python value: empty containers and None are false
truthy(v) ==
  CASE v.type = "NoneType" -> FALSE
    [] v.type = "str" -> v.s # ""
    [] v.type = "list" -> Len(v.items) > 0
    [] v.type = "dict" -> DOMAIN v.d # {}

\* dict.get(key, default)
dict_get(v, key, default) == IF key \in DOMAIN v.d THEN v.d[key] ELSE default

(* ---- what the transports may answer (inputs of the model) ---- *)
Facts1 == PyDict([serial_number |-> PyStr("SN1"), os_version |-> PyStr("15.2"),
                  interfaces |-> PyList(<<"Eth1", "Eth2">>)])
Facts2 == PyDict([serial_number |-> PyStr("SN2"), interfaces |-> PyList(<<>>)])
Raises == [type |-> "raises"]

\* napalm: device.get_facts(), device.get_interfaces(), device.get_config()
NapalmFactsReplies == {Facts1, Facts2}
\* (a dict keeps its keys in insertion order: its items are a sequence here)
PyItems(items) == [type |-> "dict_items", items |-> items]
NapalmInterfacesReplies ==
  { PyItems(<<>>),
    PyItems(<<[k |-> "Eth1", v |-> [is_up |-> PyStr("True")]],
              [k |-> "Eth2", v |-> [is_up |-> PyStr("False")]]>>) }
NapalmConfigReplies == {PyDict([running |-> PyStr("hostname leaf1")]),
                        PyDict([startup |-> PyStr("hostname leaf1")])}
\* netmiko: conn.send_command(...): parsed rows (a list) or raw text
NetmikoFactsReplies == {PyList(<<Facts1>>), PyList(<<>>), PyStr("raw output")}
NetmikoInterfacesReplies == {PyList(<<PyDict([interface |-> PyStr("Eth1")])>>),
                             PyStr("raw output")}
NetmikoConfigReplies == {PyStr("hostname leaf1")}

(* ---- the Collector and its drivers (connector.py) ---- *)

\* NetworkCollector.LIBRARY
LIBRARY == [napalm |-> "NapalmDriver", netmiko |-> "NetmikoDriver"]
\* the Collector instances of the model
CollectorIds == {1, 2}
\* the names a caller may pass as library
LibraryNames == {"napalm", "netmiko", "scrapli", ""}

ConnectOutcomes(kind) ==
  IF kind = "NapalmDriver" THEN {"ok", "lookup_raises", "open_raises"}
  ELSE {"ok", "handler_raises"}
AllConnectOutcomes == ConnectOutcomes("NapalmDriver") \cup ConnectOutcomes("NetmikoDriver")
CloseOutcomes == {"ok", "raises"}

NoCollectorCall ==
  [op |-> "none", c |-> 0, library |-> "", raised |-> "none", result |-> PyNone,
   instantiated |-> 0, transportOps |-> 0, transport |-> "none", hist |-> "never",
   outcome |-> "none"]
NoScope ==
  [library |-> "", constructed |-> FALSE, entered |-> FALSE, bodyRan |-> FALSE,
   bodyRaised |-> FALSE, closeCalls |-> 0, raised |-> "none", outcome |-> "none"]

\* the part of the state the drivers act on
St == [collectors |-> collectors, drivers |-> drivers, sessions |-> sessions]

\* NapalmDriver.__init__ / NetmikoDriver.__init__: a fresh instance, no handle;
\* opened keeps the sessions the instance has opened so far
Driver_init(cls) == [kind |-> cls, handle |-> 0, opened |-> {}]

\* a constructor that builds a driver (the default one for an unknown name)
\* before it checks the registry
NetworkCollector_init_late(st, library) ==
  LET cls == IF library \in DOMAIN LIBRARY THEN LIBRARY[library] ELSE "NetmikoDriver"
      st2 == [st EXCEPT !.drivers = Append(@, Driver_init(cls))]
  IN  IF library \notin DOMAIN LIBRARY
        THEN [st |-> st2, raised |-> "ValueError", instantiated |-> 1]
        ELSE [st |-> [st2 EXCEPT !.collectors =
                        Append(@, [library |-> library, driver |-> Len(st2.drivers),
                                   hist |-> "never"])],
              raised |-> "none", instantiated |-> 1]

\* NetworkCollector.__init__: the registry check comes first, then the driver is
\* instantiated
NetworkCollector_init(st, library) ==
  IF library \notin DOMAIN LIBRARY
    THEN [st |-> st, raised |-> "ValueError", instantiated |-> 0]
    ELSE [st |-> [st EXCEPT
                    !.drivers = Append(@, Driver_init(LIBRARY[library])),
                    !.collectors = Append(@, [library |-> library,
                                              driver |-> Len(st.drivers) + 1,
                                              hist |-> "never"])],
          raised |-> "none", instantiated |-> 1]

\* NapalmDriver.connect: the device object is stored before open() is tried
NapalmDriver_connect(st, i, outcome) ==
  CASE outcome = "ok" ->
         [st |-> [st EXCEPT !.sessions = Append(@, "open"),
                            !.drivers[i].handle = Len(st.sessions) + 1,
                            !.drivers[i].opened = @ \cup {Len(st.sessions) + 1}],
          raised |-> "none", ops |-> 1]
    [] outcome = "open_raises" ->
         [st |-> [st EXCEPT !.sessions = Append(@, "unopened"),
                            !.drivers[i].handle = Len(st.sessions) + 1],
          raised |-> "TransportError", ops |-> 1]
    [] OTHER -> [st |-> st, raised |-> "TransportError", ops |-> 0]

\* a connect whose except clause logs the error and returns
NetmikoDriver_connect_swallow(st, i, outcome) ==
  CASE outcome = "ok" ->
         [st |-> [st EXCEPT !.sessions = Append(@, "open"),
                            !.drivers[i].handle = Len(st.sessions) + 1,
                            !.drivers[i].opened = @ \cup {Len(st.sessions) + 1}],
          raised |-> "none", ops |-> 1]
    [] OTHER -> [st |-> st, raised |-> "none", ops |-> 1]

\* NetmikoDriver.connect: conn is assigned only when ConnectHandler returns; the
\* except clause re-raises
NetmikoDriver_connect(st, i, outcome) ==
  CASE outcome = "ok" ->
         [st |-> [st EXCEPT !.sessions = Append(@, "open"),
                            !.drivers[i].handle = Len(st.sessions) + 1,
                            !.drivers[i].opened = @ \cup {Len(st.sessions) + 1}],
          raised |-> "none", ops |-> 1]
    [] OTHER -> [st |-> st, raised |-> "TransportError", ops |-> 1]

\* the transport's own close/disconnect on handle h: an open session is closed;
\* on a session that is not open the transport may raise or not
transport_close(st, h, outcome) ==
  IF st.sessions[h] = "open"
    THEN [st |-> [st EXCEPT !.sessions[h] = "closed"], raised |-> "none", ops |-> 1]
    ELSE [st |-> st,
          raised |-> IF outcome = "raises" THEN "TransportError" ELSE "none",
          ops |-> 1]

\* NapalmDriver.close: if self.device: self.device.close()
NapalmDriver_close(st, i, outcome) ==
  IF st.drivers[i].handle # 0
    THEN transport_close(st, st.drivers[i].handle, outcome)
    ELSE [st |-> st, raised |-> "none", ops |-> 0]

\* NetmikoDriver.close: if self.conn: self.conn.disconnect()
NetmikoDriver_close(st, i, outcome) ==
  IF st.drivers[i].handle # 0
    THEN transport_close(st, st.drivers[i].handle, outcome)
    ELSE [st |-> st, raised |-> "none", ops |-> 0]

\* what a call on the handle does: with no handle the attribute access on None
\* raises before the transport is reached; else the transport answers or raises
transport_call(st, i, reply) ==
  IF st.drivers[i].handle = 0 THEN "no_session"
  ELSE IF reply = Raises THEN "raises" ELSE "replied"

\* a retrieval whose except clause lets the exception through
reraise(how, value, default) ==
  IF how = "replied" THEN [raised |-> "none", result |-> value]
  ELSE [raised |-> IF how = "raises" THEN "TransportError" ELSE "AttributeError",
        result |-> PyNone]

\* try: return <value> / except Exception: return <default>
fail_soft(how, value, default) ==
  IF how = "replied" THEN [raised |-> "none", result |-> value]
  ELSE [raised |-> "none", result |-> default]

\* NapalmDriver.get_facts
NapalmDriver_get_facts(st, i, reply) ==
  fail_soft(transport_call(st, i, reply), reply, EmptyMap)

\* NapalmDriver.get_interfaces: [{"name": k, **v} for k, v in interfaces.items()]
NapalmDriver_get_interfaces(st, i, reply) ==
  fail_soft(transport_call(st, i, reply),
            PyList([k \in 1..(IF reply = Raises THEN 0 ELSE Len(reply.items)) |->
                      PyDict([name |-> PyStr(reply.items[k].k)] @@ reply.items[k].v)]),
            EmptySeq)

\* NapalmDriver.get_config: config.get("running", "")
NapalmDriver_get_config(st, i, reply) ==
  fail_soft(transport_call(st, i, reply),
            IF reply = Raises THEN EmptyStr ELSE dict_get(reply, "running", EmptyStr),
            EmptyStr)

\* NetmikoDriver.get_facts: output[0] if isinstance(output, list) and output else {}
NetmikoDriver_get_facts(st, i, reply) ==
  fail_soft(transport_call(st, i, reply),
            IF reply # Raises /\ isinstance_list(reply) /\ truthy(reply)
              THEN reply.items[1] ELSE EmptyMap,
            EmptyMap)

\* NetmikoDriver.get_interfaces: output if isinstance(output, list) else []
NetmikoDriver_get_interfaces(st, i, reply) ==
  fail_soft(transport_call(st, i, reply),
            IF reply # Raises /\ isinstance_list(reply) THEN reply ELSE EmptySeq,
            EmptySeq)

\* NetmikoDriver.get_config
NetmikoDriver_get_config(st, i, reply) ==
  fail_soft(transport_call(st, i, reply), reply, EmptyStr)

isNapalm(st, i) == st.drivers[i].kind = "NapalmDriver"

\* self.driver.<method>(...): dispatch on the driver instance the Collector holds
driver_connect(st, i, outcome) ==
  IF isNapalm(st, i) THEN NapalmDriver_connect(st, i, outcome)
  ELSE NetmikoDriver_connect(st, i, outcome)
driver_close(st, i, outcome) ==
  IF isNapalm(st, i) THEN NapalmDriver_close(st, i, outcome)
  ELSE NetmikoDriver_close(st, i, outcome)
driver_get_facts(st, i, reply) ==
  IF isNapalm(st, i) THEN NapalmDriver_get_facts(st, i, reply)
  ELSE NetmikoDriver_get_facts(st, i, reply)
driver_get_interfaces(st, i, reply) ==
  IF isNapalm(st, i) THEN NapalmDriver_get_interfaces(st, i, reply)
  ELSE NetmikoDriver_get_interfaces(st, i, reply)
driver_get_config(st, i, reply) ==
  IF isNapalm(st, i) THEN NapalmDriver_get_config(st, i, reply)
  ELSE NetmikoDriver_get_config(st, i, reply)

RepliesFor(st, i, what) ==
  {Raises} \cup
  CASE what = "facts" ->
         IF isNapalm(st, i) THEN NapalmFactsReplies ELSE NetmikoFactsReplies
    [] what = "interfaces" ->
         IF isNapalm(st, i) THEN NapalmInterfacesReplies ELSE NetmikoInterfacesReplies
    [] what = "config" ->
         IF isNapalm(st, i) THEN NapalmConfigReplies ELSE NetmikoConfigReplies

\* a session that is not open cannot answer
Answers(st, i, reply) ==
  (st.drivers[i].handle # 0 /\ st.sessions[st.drivers[i].handle] # "open")
    => reply = Raises

\* the connect history of a Collector after one more connect
hist_after(h, raised) ==
  IF raised = "none" \/ h = "succeeded" THEN "succeeded" ELSE "failed"

\* NetworkCollector.connect with the history kept
collector_connect(st, c, outcome) ==
  LET r == driver_connect(st, st.collectors[c].driver, outcome)
  IN  [r EXCEPT !.st.collectors[c].hist = hist_after(@, r.raised)]

SetSt(st) ==
  /\ collectors' = st.collectors
  /\ drivers' = st.drivers
  /\ sessions' = st.sessions

\* NetworkCollector(host, username, password, device_type, library)
NetworkCollector_new(library) ==
  LET r == NetworkCollector_init(St, library)
  IN  /\ library \in DOMAIN LIBRARY => Len(collectors) < Cardinality(CollectorIds)
      /\ SetSt(r.st)
      /\ call' = [NoCollectorCall EXCEPT
                    !.op = "__init__", !.library = library, !.raised = r.raised,
                    !.c = IF r.raised = "none" THEN Len(r.st.collectors) ELSE 0,
                    !.instantiated = Len(r.st.drivers) - Len(drivers)]
      /\ scope' = NoScope
      /\ UNCHANGED <<entityVars, reconcileVars, loaderVars, infoVars>>

\* NetworkCollector.connect
NetworkCollector_connect(c, outcome) ==
  LET r == collector_connect(St, c, outcome)
  IN  /\ c \in 1..Len(collectors)
      /\ outcome \in ConnectOutcomes(drivers[collectors[c].driver].kind)
      /\ Len(r.st.sessions) <= MaxSessions
      /\ SetSt(r.st)
      /\ call' = [NoCollectorCall EXCEPT
                    !.op = "connect", !.c = c, !.library = collectors[c].library,
                    !.raised = r.raised, !.transportOps = r.ops,
                    !.hist = collectors[c].hist, !.outcome = outcome]
      /\ scope' = NoScope
      /\ UNCHANGED <<entityVars, reconcileVars, loaderVars, infoVars>>

\* NetworkCollector.close
NetworkCollector_close(c, outcome) ==
  LET r == driver_close(St, collectors[c].driver, outcome)
  IN  /\ c \in 1..Len(collectors)
      /\ SetSt(r.st)
      /\ call' = [NoCollectorCall EXCEPT
                    !.op = "close", !.c = c, !.library = collectors[c].library,
                    !.raised = r.raised, !.transportOps = r.ops,
                    !.hist = collectors[c].hist]
      /\ scope' = NoScope
      /\ UNCHANGED <<entityVars, reconcileVars, loaderVars, infoVars>>

\* what a retrieval call leaves behind
Retrieved(op, c, reply, r) ==
  /\ call' = [NoCollectorCall EXCEPT
                !.op = op, !.c = c, !.library = collectors[c].library,
                !.raised = r.raised, !.result = r.result,
                !.transport = transport_call(St, collectors[c].driver, reply),
                !.transportOps = IF drivers[collectors[c].driver].handle = 0
                                   THEN 0 ELSE 1,
                !.hist = collectors[c].hist]
  /\ UNCHANGED <<collectors, drivers, sessions>>
  /\ scope' = NoScope
  /\ UNCHANGED <<entityVars, reconcileVars, loaderVars, infoVars>>

\* NetworkCollector.get_facts
NetworkCollector_get_facts(c) ==
  /\ c \in 1..Len(collectors)
  /\ \E reply \in RepliesFor(St, collectors[c].driver, "facts") :
       /\ Answers(St, collectors[c].driver, reply)
       /\ Retrieved("get_facts", c, reply,
                    driver_get_facts(St, collectors[c].driver, reply))

\* NetworkCollector.get_interfaces_ip: return self.driver.get_interfaces()
NetworkCollector_get_interfaces_ip(c) ==
  /\ c \in 1..Len(collectors)
  /\ \E reply \in RepliesFor(St, collectors[c].driver, "interfaces") :
       /\ Answers(St, collectors[c].driver, reply)
       /\ Retrieved("get_interfaces_ip", c, reply,
                    driver_get_interfaces(St, collectors[c].driver, reply))

\* NetworkCollector.get_lldp_neighbors: return self.driver.get_config()
NetworkCollector_get_lldp_neighbors(c) ==
  /\ c \in 1..Len(collectors)
  /\ \E reply \in RepliesFor(St, collectors[c].driver, "config") :
       /\ Answers(St, collectors[c].driver, reply)
       /\ Retrieved("get_lldp_neighbors", c, reply,
                    driver_get_config(St, collectors[c].driver, reply))

\* the parameters NetworkCollector.__exit__ declares (self), and the arguments
\* the with statement calls it with (self, exc_type, exc_value, traceback)
ExitParams == 1
WithExitArgs == 4

\* leaving the with-block: __exit__ is called with WithExitArgs arguments; a
\* method that does not take them raises TypeError before its body (close) runs
NetworkCollector_exit(st, c, outcome) ==
  IF ExitParams = WithExitArgs
    THEN LET r == driver_close(st, st.collectors[c].driver, outcome)
         IN  [st |-> r.st, raised |-> r.raised, closeCalls |-> 1]
    ELSE [st |-> st, raised |-> "TypeError", closeCalls |-> 0]

\* with NetworkCollector(...) as conn: <body>
\* construct, __enter__ (connect), the body, __exit__; an exception of the body
\* leaves through __exit__, whose None result does not suppress it. The Collector
\* and its driver are local to the statement: only the session outlives it.
with_NetworkCollector(library, outcome, bodyRaises) ==
  LET i == NetworkCollector_init(St, library)
      c == Len(i.st.collectors)
      e == collector_connect(i.st, c, outcome)
      x == NetworkCollector_exit(e.st, c, "ok")
  IN  /\ call' = NoCollectorCall
      /\ UNCHANGED <<collectors, drivers>>
      /\ UNCHANGED <<entityVars, reconcileVars, loaderVars, infoVars>>
      /\ IF i.raised # "none"
           THEN /\ outcome = "ok" /\ ~bodyRaises
                /\ sessions' = i.st.sessions
                /\ scope' = [NoScope EXCEPT !.library = library, !.raised = i.raised]
           ELSE /\ outcome \in ConnectOutcomes(LIBRARY[library])
                /\ Len(e.st.sessions) <= MaxSessions
                /\ IF e.raised # "none"
                     THEN /\ ~bodyRaises
                          /\ sessions' = e.st.sessions
                          /\ scope' = [NoScope EXCEPT !.library = library,
                                         !.constructed = TRUE, !.raised = e.raised,
                                         !.outcome = outcome]
                     ELSE /\ sessions' = x.st.sessions
                          /\ scope' = [library |-> library, constructed |-> TRUE,
                                       entered |-> TRUE, bodyRan |-> TRUE,
                                       bodyRaised |-> bodyRaises,
                                       closeCalls |-> x.closeCalls,
                                       outcome |-> outcome,
                                       raised |-> IF x.raised # "none" THEN x.raised
                                                  ELSE IF bodyRaises THEN "BodyError"
                                                  ELSE "none"]

InitCollector ==
  /\ collectors = <<>>
  /\ drivers = <<>>
  /\ sessions = <<>>
  /\ call = NoCollectorCall
  /\ scope = NoScope

(* ---- claims about the Collector ---- *)

\* C3: every with-block whose connect succeeded calls the driver's close exactly
\* once when the block is left, whether the body returned or raised.
C3_ScopeCloses == scope.entered => scope.closeCalls = 1

\* C4: constructing a Collector with a name that is not in the registry raises
\* the unsupported-driver error, with no driver built and no transport touched.
C4_UnsupportedDriver ==
  (call.op = "__init__" /\ call.library \notin DOMAIN LIBRARY)
    => (call.raised = "ValueError" /\ call.instantiated = 0
        /\ call.transportOps = 0 /\ call.c = 0)
C4_Witness ==
  call.op = "__init__" /\ call.library = "scrapli" /\ Len(collectors) > 0

\* C9: when the transport raises during a retrieval, or there is no session,
\* the call does not raise and returns the empty default of its kind.
C9_FailSoft ==
  (call.op \in {"get_facts", "get_interfaces_ip", "get_lldp_neighbors"}
     /\ call.transport \in {"raises", "no_session"})
    => /\ call.raised = "none"
       /\ call.result = CASE call.op = "get_facts" -> EmptyMap
                          [] call.op = "get_interfaces_ip" -> EmptySeq
                          [] call.op = "get_lldp_neighbors" -> EmptyStr
C9_Witness ==
  /\ call.op = "get_interfaces_ip" /\ call.transport = "raises"
  /\ call.library = "napalm" /\ call.hist = "succeeded"
C9_WitnessNoSession ==
  /\ call.op = "get_facts" /\ call.transport = "no_session"
  /\ call.library = "netmiko"

\* C10: close on a Collector whose connect was never called, or was called and
\* failed, does not raise and performs no operation on the transport.
C10_CloseIsNoOp ==
  (call.op = "close" /\ call.hist \in {"never", "failed"})
    => (call.raised = "none" /\ call.transportOps = 0)

\* the session the Collector of the last call holds, if any
held_session(c) ==
  LET h == drivers[collectors[c].driver].handle
  IN  IF h = 0 THEN "none" ELSE sessions[h]

\* C11: for both drivers, a connect in which the transport cannot establish a
\* session raises to its caller; a connect that returns normally has an open
\* session; and after a failed connect the with-block's body is not run.
C11_ConnectRaises ==
  /\ (call.op = "connect" /\ call.outcome # "ok") => call.raised # "none"
  /\ (call.op = "connect" /\ call.raised = "none") => held_session(call.c) = "open"
  /\ (scope.constructed /\ scope.outcome # "ok")
       => (~scope.entered /\ ~scope.bodyRan /\ scope.raised # "none")
C11_Witness ==
  call.op = "connect" /\ call.outcome = "handler_raises" /\ call.library = "netmiko"
C11_WitnessScope ==
  scope.constructed /\ scope.outcome = "open_raises" /\ scope.library = "napalm"

\* C18: after any connect and close calls on a Collector, close leaves none of
\* the sessions that Collector opened still open (also when connect was called
\* twice before close), and no two Collectors hold the same driver instance.
C18_OneSession ==
  /\ call.op = "close"
       => \A h \in drivers[collectors[call.c].driver].opened : sessions[h] # "open"
  /\ \A c1, c2 \in 1..Len(collectors) :
       c1 # c2 => collectors[c1].driver # collectors[c2].driver

(* ---- the topology loader (clab_loader.py) ---- *)

\* a mapping that passes every kind through
identity_kind(kind) == kind

KIND_MAPPING ==
  [linux |-> "linux", host |-> "host", container |-> "container",
   cisco_iol |-> "cisco_ios", arista_eos |-> "arista_eos"]

\* map_device_kind: KIND_MAPPING.get(kind, kind)
map_device_kind(kind) ==
  IF kind \in DOMAIN KIND_MAPPING THEN KIND_MAPPING[kind] ELSE kind

\* the kinds a node of the topology may declare; Absent is a node without one
Kinds == DOMAIN KIND_MAPPING \cup {"unknown_vendor", "cisco_ios"}
Absent == "absent"
\* default_kind after lines 14-15: never bound when the topology has no
\* defaults, False when the defaults name no kind, else the kind they name
DefaultKinds == {"unbound", "False", "linux"}

\* one turn of the loop of get_device_list (lines 17-25): the node's kind, or
\* default_kind, and the driver mapped from it. The default is evaluated for
\* every node, so an unbound default_kind raises UnboundLocalError.
get_device_list_node(kind) ==
  /\ loader.exc = "none"
  /\ Len(loader.device_list) < MaxNodes
  /\ IF loader.default_kind = "unbound"
       THEN loader' = [loader EXCEPT !.exc = "UnboundLocalError"]
       ELSE LET k == IF kind = Absent THEN loader.default_kind ELSE kind
            IN  loader' = [loader EXCEPT !.device_list =
                  Append(@, [name |-> Len(loader.device_list) + 1, kind |-> k,
                             driver |-> map_device_kind(k)])]
  /\ UNCHANGED <<entityVars, collectorVars, reconcileVars, infoVars>>

InitLoader ==
  loader = [default_kind |-> "linux", device_list |-> <<>>, exc |-> "none"]

\* the topologies get_device_list may be given
InitTopology ==
  \E d \in DefaultKinds :
    loader = [default_kind |-> d, device_list |-> <<>>, exc |-> "none"]

(* ---- claims about the loader ---- *)

\* C15: the driver derived from a kind is linux for linux, host for host,
\* container for container, cisco_ios for cisco_iol, arista_eos for arista_eos,
\* and the kind itself for every other kind.
C15_KindMapping ==
  \A i \in 1..Len(loader.device_list) :
    LET e == loader.device_list[i]
    IN  e.driver = CASE e.kind = "linux" -> "linux"
                     [] e.kind = "host" -> "host"
                     [] e.kind = "container" -> "container"
                     [] e.kind = "cisco_iol" -> "cisco_ios"
                     [] e.kind = "arista_eos" -> "arista_eos"
                     [] OTHER -> e.kind
C15_Witness ==
  /\ \E i \in 1..Len(loader.device_list) : loader.device_list[i].kind = "cisco_iol"
  /\ \E i \in 1..Len(loader.device_list) :
       loader.device_list[i].kind = "unknown_vendor"

(* ---- fact collection by a Device (classes.py) ---- *)

PyUnset == [type |-> "unset"]            \* an attribute never assigned
TypingList == [type |-> "typing.List"]   \* the object List[Interface]
Credentials(username, password) ==
  [type |-> "Credentials", username |-> username, password |-> password]

\* Interface(name=...)
Interface(name) == [name |-> name, type |-> "Unknown"]

\* Device.__init__ (classes.py:55-70): device_type is only annotated, credentials
\* is None, interfaces is bound to List[Interface], fqdn does not exist yet
NewNetDevice ==
  [device_type |-> PyUnset, credentials |-> PyNone, mgmt_ip |-> PyNone,
   serial |-> PyNone, version |-> PyNone, fqdn |-> PyUnset,
   interfaces |-> TypingList]

NoInfo ==
  [op |-> "none", library |-> "", raised |-> "none", caught |-> "none",
   bodyRan |-> FALSE, transport |-> "none", facts |-> PyNone,
   before |-> TypingList, hadCredentials |-> FALSE, hadDeviceType |-> FALSE]

\* Device.set_credentials
set_credentials(username, password) ==
  /\ ndev' = [ndev EXCEPT !.credentials = Credentials(username, password)]
  /\ info' = [NoInfo EXCEPT !.op = "set_credentials"]
  /\ UNCHANGED <<entityVars, collectorVars, reconcileVars, loaderVars>>

\* clab_loader.py:46-47: new_device.device_type = kind; new_device.mgmt_ip = ip
assign_device_type(kind) ==
  /\ ndev' = [ndev EXCEPT !.device_type = PyStr(kind), !.mgmt_ip = PyStr("10.0.0.1")]
  /\ info' = [NoInfo EXCEPT !.op = "assign_device_type"]
  /\ UNCHANGED <<entityVars, collectorVars, reconcileVars, loaderVars>>

\* lines 84-90: connect_info is built before the try; reading .username of None
\* and reading an attribute that was never assigned raise AttributeError
connect_info(d) ==
  IF d.credentials = PyNone THEN "AttributeError"
  ELSE IF d.device_type = PyUnset THEN "AttributeError"
  ELSE "none"

\* lines 96-103: the body of the with-block, given the facts returned
store_facts(d, facts) ==
  LET interfaces == dict_get(facts, "interfaces", EmptySeq)
  IN  [d EXCEPT
         !.serial = dict_get(facts, "serial_number", PyNone),
         !.version = dict_get(facts, "os_version", PyNone),
         !.fqdn = dict_get(facts, "fqdn", PyNone),
         !.interfaces = IF truthy(interfaces)
                          THEN PyList([k \in 1..Len(interfaces.items) |->
                                         Interface(interfaces.items[k])])
                          ELSE @]

\* Device.get_network_info(library): connect_info, then inside try/except
\* Exception the with-block: construct, __enter__ (connect), get_facts and the
\* assignments, __exit__. The Collector is local to the call; a session it
\* leaves open outlives it.
get_network_info(library, outcome, reply) ==
  LET pre == connect_info(ndev)
      i == NetworkCollector_init(St, library)
      c == Len(i.st.collectors)
      e == collector_connect(i.st, c, outcome)
      drv == e.st.collectors[c].driver
      r == driver_get_facts(e.st, drv, reply)
      x == NetworkCollector_exit(e.st, c, "ok")
      base == [NoInfo EXCEPT !.op = "get_network_info", !.library = library,
                 !.before = ndev.interfaces,
                 !.hadCredentials = ndev.credentials # PyNone,
                 !.hadDeviceType = ndev.device_type # PyUnset]
  IN  /\ call' = NoCollectorCall
      /\ scope' = NoScope
      /\ UNCHANGED <<collectors, drivers>>
      /\ UNCHANGED <<entityVars, reconcileVars, loaderVars>>
      /\ IF pre # "none"
           THEN /\ outcome = "ok" /\ reply = Raises
                /\ UNCHANGED <<sessions, ndev>>
                /\ info' = [base EXCEPT !.raised = pre]
         ELSE IF i.raised # "none"
           THEN /\ outcome = "ok" /\ reply = Raises
                /\ UNCHANGED <<sessions, ndev>>
                /\ info' = [base EXCEPT !.caught = i.raised]
         ELSE /\ outcome \in ConnectOutcomes(LIBRARY[library])
              /\ Len(e.st.sessions) <= MaxSessions
              /\ IF e.raised # "none"
                   THEN /\ reply = Raises
                        /\ sessions' = e.st.sessions
                        /\ ndev' = ndev
                        /\ info' = [base EXCEPT !.caught = e.raised]
                   ELSE /\ reply \in RepliesFor(e.st, drv, "facts")
                        /\ sessions' = x.st.sessions
                        /\ ndev' = store_facts(ndev, r.result)
                        /\ info' = [base EXCEPT
                                      !.bodyRan = TRUE, !.facts = r.result,
                                      !.transport = transport_call(e.st, drv, reply),
                                      !.caught = x.raised]

InitInfo ==
  /\ ndev = NewNetDevice
  /\ info = NoInfo

(* ---- claims about fact collection ---- *)

\* C19: get_network_info returns normally for every Device and library name: an
\* unsupported library, a failed connect, a failed retrieval, and credentials
\* or device_type that were never set all end the call without an exception
\* reaching the caller.
C19_BatchContinues == info.op = "get_network_info" => info.raised = "none"

\* C20: after a get_network_info in which get_facts succeeded, the Device's
\* interfaces are one Interface per name the facts report, in that order, and
\* none of an earlier collection is left, also when the facts report none.
Reported == dict_get(info.facts, "interfaces", EmptySeq).items
C20_InterfacesReplaced ==
  (info.op = "get_network_info" /\ info.bodyRan /\ info.transport = "replied"
     /\ "interfaces" \in DOMAIN info.facts.d)
    => ndev.interfaces = PyList([k \in 1..Len(Reported) |-> Interface(Reported[k])])

(* ---- values held by entity attributes and inventory records ---- *)
NoneV == [k |-> "None", s |-> "", n |-> 0]
Unset == [k |-> "unset", s |-> "", n |-> 0]      \* attribute never assigned
StrV(x) == [k |-> "str", s |-> x, n |-> 0]
IntV(i) == [k |-> "int", s |-> "", n |-> i]
ObjV(i) == [k |-> "obj", s |-> "", n |-> i]       \* a nested record, with .id = i
DictV(i) == [k |-> "dict", s |-> "", n |-> i]     \* the dict {"id": i}
Exc(name) == [k |-> "exc", s |-> name, n |-> 0]   \* evaluating raised <name>
isExc(v) == v.k = "exc"

\* bool(v)
truthyV(v) ==
  CASE v.k = "None" -> FALSE
    [] v.k = "str" -> v.s # ""
    [] v.k = "int" -> v.n # 0
    [] OTHER -> TRUE

\* self.<attr>: AttributeError when it was never assigned
attr(v) == IF v = Unset THEN Exc("AttributeError") ELSE v

\* self.X["id"] if self.X else None
id_if_set(v) ==
  CASE v = Unset -> Exc("AttributeError")
    [] ~truthyV(v) -> NoneV
    [] v.k = "dict" -> IntV(v.n)
    [] OTHER -> Exc("TypeError")

\* (self.X or {}).get("id")
get_id_or_empty(v) ==
  CASE v = Unset -> Exc("AttributeError")
    [] ~truthyV(v) -> NoneV
    [] v.k = "dict" -> IntV(v.n)
    [] OTHER -> Exc("AttributeError")

\* {"id": h.X.id} if h.X else None
obj_to_dict(v) ==
  CASE ~truthyV(v) -> NoneV
    [] v.k = "obj" -> DictV(v.n)
    [] OTHER -> Exc("AttributeError")

\* a or b
py_or(a, b) == IF truthyV(a) THEN a ELSE b

\* how the inventory serves a stored reference: a nested record, or None
served(v) == IF v.k = "int" THEN ObjV(v.n) ELSE v

(* ---- the inventory and the entities being reconciled ---- *)
RecDevice == "leaf1"
RecSite == "lab-a"

\* the failures a call against the inventory may end in
FailKinds == {"RequestError", "ValidationError", "Exception"}
NoFail == [at |-> "none", kind |-> "none"]
Fails == {NoFail} \cup [at : {"get", "create", "update"}, kind : FailKinds]

DeviceFields == {"name", "device_type", "role", "site", "status", "serial",
                 "platform", "primary_ip"}
DiffFields == {"status", "serial", "platform", "primary_ip"}

NoPass ==
  [entity |-> "none", found |-> FALSE, looked |-> FALSE, creates |-> <<>>,
   updates |-> <<>>, result |-> NoneV, raised |-> "none", caught |-> "none",
   failedAt |-> "none", preDev |-> <<>>, preRec |-> <<>>, site_id |-> NoneV]

\* the inventory record of a create payload: the fields sent, None for the rest
DeviceRecord(id, payload) ==
  [f \in DeviceFields |-> IF f \in DOMAIN payload THEN payload[f] ELSE NoneV]
    @@ [id |-> IntV(id)]

\* nb.dcim.sites.get(name=...): the indices of the records with that name
sites_get(st, name) == {i \in 1..Len(st.nbSites) : st.nbSites[i].name = name}

\* a lookup that never finds a record
devices_get_nothing(st, name, siteName) == {}

\* nb.dcim.devices.get(name=..., site=...): the records with that name in the site
\* of that name (a site of None does not filter)
devices_get(st, name, siteName) ==
  {i \in 1..Len(st.nbDevices) :
     /\ st.nbDevices[i].name = name
     /\ siteName # NoneV =>
          \E j \in 1..Len(st.nbSites) :
            /\ st.nbSites[j].id = st.nbDevices[i].site
            /\ st.nbSites[j].name = siteName}

\* the ways nb_create is left on an exception: a handler returns None, or the
\* exception reaches the caller
except_RequestError == [result |-> NoneV, raised |-> "none", caught |-> "RequestError"]
except_ValidationError ==
  [result |-> NoneV, raised |-> "none", caught |-> "ValidationError"]
except_Exception == [result |-> NoneV, raised |-> "none", caught |-> "Exception"]
uncaught(kind) == [result |-> NoneV, raised |-> kind, caught |-> "none"]

\* NbSiteMixin.nb_create: except Exception
site_handlers(kind) == except_Exception

\* handlers that stop at the two pynetbox exceptions
device_handlers_no_catch_all(kind) ==
  CASE kind = "RequestError" -> except_RequestError
    [] kind = "ValidationError" -> except_ValidationError
    [] OTHER -> uncaught(kind)

\* NbDeviceMixin.nb_create: except RequestError / ValidationError / Exception, in
\* that order: the first clause that matches handles the exception
device_handlers(kind) ==
  CASE kind = "RequestError" -> except_RequestError
    [] kind = "ValidationError" -> except_ValidationError
    [] OTHER -> except_Exception

\* nb_create left by an exception raised by the inventory call `at` ("none": by
\* the method's own code), as the handlers h resolve it
Failed(st, p, at, h) == [st |-> st, pass |-> p @@ [failedAt |-> at] @@ h]
Returned(st, p, result) ==
  [st |-> st,
   pass |-> p @@ [failedAt |-> "none", result |-> result, raised |-> "none",
                  caught |-> "none"]]

\* the state nb_create acts on
RecSt ==
  [nb |-> nb, nbSites |-> nbSites, nbDevices |-> nbDevices, dev |-> dev,
   siteObj |-> siteObj, devSite |-> site[RecDevice]]

\* NbSiteMixin.nb_create
NbSiteMixin_nb_create(st, fail) ==
  LET p0 == [entity |-> "site", found |-> FALSE, looked |-> FALSE, creates |-> <<>>,
             updates |-> <<>>, preDev |-> st.siteObj, preRec |-> <<>>,
             site_id |-> NoneV]
      m == sites_get(st, StrV(RecSite))
      r == st.nbSites[CHOOSE i \in m : TRUE]
      payload == [name |-> StrV(RecSite), slug |-> st.siteObj.slug,
                  status |-> st.siteObj.status,
                  description |-> st.siteObj.description,
                  tenant |-> st.siteObj.tenant,
                  tenant_group |-> st.siteObj.tenant_group]
      newId == Len(st.nbSites) + 1
  IN  IF st.nb = "NbConnection" THEN Failed(st, p0, "get", site_handlers("AttributeError"))
      ELSE IF fail.at = "get" THEN Failed(st, p0, "get", site_handlers(fail.kind))
      ELSE IF Cardinality(m) > 1 THEN Failed(st, p0, "get", site_handlers("ValueError"))
      ELSE IF m = {}
        THEN LET p1 == [p0 EXCEPT !.looked = TRUE, !.creates = <<payload>>]
             IN  IF fail.at = "create" THEN Failed(st, p1, "create", site_handlers(fail.kind))
                 ELSE Returned([st EXCEPT !.nbSites = Append(@,
                                  [id |-> IntV(newId), name |-> payload.name,
                                   slug |-> payload.slug, status |-> payload.status,
                                   tenant |-> payload.tenant])],
                               p1, ObjV(newId))
        ELSE Returned([st EXCEPT
                         !.siteObj.slug = IF truthyV(r.slug) THEN r.slug ELSE @,
                         !.siteObj.status = IF truthyV(r.status) THEN r.status ELSE @,
                         !.siteObj.tenant = r.tenant,
                         !.siteObj.id = r.id],
                      [p0 EXCEPT !.looked = TRUE, !.found = TRUE, !.preRec = r],
                      ObjV(r.id.n))

\* NbDeviceMixin.nb_create: the creation payload (lines 77-89)
device_data(st, site_id) ==
  [name |-> StrV(RecDevice),
   device_type |-> id_if_set(st.dev.device_type),
   role |-> id_if_set(st.dev.device_role),
   site |-> py_or(site_id, IF st.devSite # None THEN st.siteObj.id ELSE NoneV),
   status |-> attr(st.dev.status),
   serial |-> attr(st.dev.serial),
   platform |-> id_if_set(st.dev.platform),
   primary_ip |-> id_if_set(st.dev.primary_ip)]

\* a payload that keeps the None values
keep_all(data) == data

\* {k: v for k, v in device_data.items() if v is not None}
non_null(data) == [f \in {g \in DOMAIN data : data[g] # NoneV} |-> data[f]]

\* NbDeviceMixin.nb_create: the update payload (lines 92-104); r is the record as
\* served. Reading an attribute that was never assigned raises.
update_data(st, r) ==
  LET cmp == [status |-> attr(st.dev.status),
              serial |-> attr(st.dev.serial),
              platform |-> get_id_or_empty(st.dev.platform),
              primary_ip |-> get_id_or_empty(st.dev.primary_ip)]
      send == [status |-> attr(st.dev.status),
               serial |-> attr(st.dev.serial),
               platform |-> id_if_set(st.dev.platform),
               primary_ip |-> id_if_set(st.dev.primary_ip)]
  IN  IF \E f \in DiffFields : isExc(cmp[f]) \/ isExc(send[f])
        THEN [raised |-> TRUE, data |-> <<>>]
        ELSE [raised |-> FALSE,
              data |-> [f \in {g \in DiffFields : r[g] # cmp[g]} |-> send[f]]]

\* the record as the inventory serves it
served_device(rec) ==
  [rec EXCEPT !.platform = served(@), !.primary_ip = served(@)]

\* nb_device.update(update_data): the fields sent are set on the handle and
\* saved; the handle then holds them as sent (raw) or as the inventory serves them
handle_after_update(h, payload, raw) ==
  [f \in DOMAIN h |->
     IF f \in DOMAIN payload THEN (IF raw THEN payload[f] ELSE served(payload[f]))
     ELSE h[f]]
stored_after_update(rec, payload) ==
  [f \in DOMAIN rec |-> IF f \in DOMAIN payload THEN payload[f] ELSE rec[f]]

\* NbDeviceMixin.nb_create: lines 108-116, the copy back from the handle
copy_back(d, h) ==
  LET plat == obj_to_dict(h.platform)
      pip == obj_to_dict(h.primary_ip)
      d1 == [d EXCEPT !.status = h.status, !.serial = h.serial]
  IN  IF isExc(plat) THEN [dev |-> d1, ok |-> FALSE]
      ELSE IF isExc(pip) THEN [dev |-> [d1 EXCEPT !.platform = plat], ok |-> FALSE]
      ELSE [dev |-> [d1 EXCEPT !.platform = plat, !.primary_ip = pip, !.id = h.id],
            ok |-> TRUE]

\* NbDeviceMixin.nb_create(site_id)
NbDeviceMixin_nb_create(st, site_id, fail, raw) ==
  LET p0 == [entity |-> "device", found |-> FALSE, looked |-> FALSE,
             creates |-> <<>>, updates |-> <<>>, preDev |-> st.dev, preRec |-> <<>>,
             site_id |-> site_id]
      siteName == IF st.devSite # None THEN StrV(st.devSite) ELSE NoneV
      m == devices_get(st, StrV(RecDevice), siteName)
      idx == CHOOSE i \in m : TRUE
      rec == st.nbDevices[idx]
      h == served_device(rec)
      data == device_data(st, site_id)
      newId == Len(st.nbDevices) + 1
      ud == update_data(st, h)
      upd == ud.data
  IN  IF st.nb = "NbConnection"
        THEN Failed(st, p0, "get", device_handlers("AttributeError"))
      ELSE IF fail.at = "get" THEN Failed(st, p0, "get", device_handlers(fail.kind))
      ELSE IF Cardinality(m) > 1
        THEN Failed(st, p0, "get", device_handlers("ValueError"))
      ELSE IF m = {}
        THEN LET p1 == [p0 EXCEPT !.looked = TRUE]
             IN  IF \E f \in DOMAIN data : isExc(data[f])
                   THEN Failed(st, p1, "none", device_handlers("AttributeError"))
                 ELSE IF fail.at = "create"
                   THEN Failed(st, [p1 EXCEPT !.creates = <<non_null(data)>>],
                               "create", device_handlers(fail.kind))
                 ELSE Returned([st EXCEPT !.nbDevices =
                                  Append(@, DeviceRecord(newId, non_null(data)))],
                               [p1 EXCEPT !.creates = <<non_null(data)>>],
                               ObjV(newId))
        ELSE LET p1 == [p0 EXCEPT !.looked = TRUE, !.found = TRUE, !.preRec = rec]
             IN  IF ud.raised
                   THEN Failed(st, p1, "none", device_handlers("AttributeError"))
                 ELSE IF DOMAIN upd # {} /\ fail.at = "update"
                   THEN Failed(st, [p1 EXCEPT !.updates = <<upd>>], "update",
                               device_handlers(fail.kind))
                 ELSE
                   LET sent == DOMAIN upd # {}
                       p2 == IF sent THEN [p1 EXCEPT !.updates = <<upd>>] ELSE p1
                       h2 == IF sent THEN handle_after_update(h, upd, raw) ELSE h
                       st2 == IF sent
                                THEN [st EXCEPT !.nbDevices[idx] =
                                                  stored_after_update(@, upd)]
                                ELSE st
                       cb == copy_back(st.dev, h2)
                       st3 == [st2 EXCEPT !.dev = cb.dev]
                   IN  IF cb.ok THEN Returned(st3, p2, ObjV(rec.id.n))
                       ELSE Failed(st3, p2, "none", device_handlers("AttributeError"))

SetRec(r) ==
  /\ nbSites' = r.st.nbSites
  /\ nbDevices' = r.st.nbDevices
  /\ dev' = r.st.dev
  /\ siteObj' = r.st.siteObj
  /\ pass' = r.pass
  /\ nb' = nb

\* site.nb_create()
Site_nb_create(fail) ==
  /\ fail.at # "update"
  /\ fail.at = "get" => nb = "api"
  /\ fail.at = "create" => (nb = "api" /\ sites_get(RecSt, StrV(RecSite)) = {})
  /\ Len(nbSites) < MaxRecords
  /\ SetRec(NbSiteMixin_nb_create(RecSt, fail))
  /\ UNCHANGED <<entityVars, collectorVars, loaderVars, infoVars>>

\* whether the Device's record is found; inputs that the path taken never reads
\* (a failure of a call that is not made, site_id on the update path, the
\* handle's form on the create path) are left at their first value, and a
\* site_id given is the id of a site the inventory holds
DeviceFound ==
  nb = "api" /\
  devices_get(RecSt, StrV(RecDevice),
              IF site[RecDevice] # None THEN StrV(site[RecDevice]) ELSE NoneV) # {}
InputsRead(site_id, fail, raw) ==
  /\ fail.at = "create" => (nb = "api" /\ ~DeviceFound)
  /\ fail.at = "update" => DeviceFound
  /\ fail.at = "get" => nb = "api"
  /\ raw => (DeviceFound /\ fail.at = "none")
  /\ site_id # NoneV => (nb = "api" /\ ~DeviceFound /\ fail.at # "get")
  /\ site_id # NoneV => \E j \in 1..Len(nbSites) : nbSites[j].id = site_id

\* device.nb_create(site_id)
Device_nb_create(site_id, fail, raw) ==
  /\ Len(nbDevices) < MaxRecords
  /\ InputsRead(site_id, fail, raw)
  /\ SetRec(NbDeviceMixin_nb_create(RecSt, site_id, fail, raw))
  /\ UNCHANGED <<entityVars, collectorVars, loaderVars, infoVars>>

\* Device.__init__ (classes.py:55-70): device_type, device_role and primary_ip and
\* id are not assigned
NewDevice ==
  [device_type |-> Unset, device_role |-> Unset, status |-> NoneV,
   serial |-> NoneV, platform |-> NoneV, primary_ip |-> Unset, id |-> Unset]

\* Site.__init__ (classes.py:12-23)
NewSite ==
  [slug |-> StrV(RecSite), status |-> StrV("active"), id |-> NoneV,
   description |-> StrV("Autonetops site lab-a"), tenant |-> NoneV,
   tenant_group |-> NoneV]

InitReconcile ==
  /\ nb = "NbConnection"
  /\ nbSites = <<>>
  /\ nbDevices = <<>>
  /\ dev = NewDevice
  /\ siteObj = NewSite
  /\ pass = NoPass

\* the attributes a caller has assigned to the Device before it is reconciled:
\* device_type and device_role as Device.__init__ leaves them, as clab_loader
\* assigns them (the kind string, no role), or both assigned as {"id": ...}
LocalDevices ==
  {d \in [device_type : {Unset, StrV("cisco_iol"), DictV(1)},
          device_role : {Unset, DictV(1)},
          status : {NoneV, StrV("active")},
          serial : {NoneV, StrV("SN1")}, platform : {NoneV, DictV(1)},
          primary_ip : {Unset, NoneV, DictV(1)}, id : {Unset}] :
     (d.device_role = DictV(1)) <=> (d.device_type = DictV(1))}

\* the records the inventory may hold at the start
RemoteSites ==
  { [id |-> IntV(1), name |-> StrV(RecSite), slug |-> StrV("lab-a-1"),
     status |-> StrV("planned"), tenant |-> NoneV],
    [id |-> IntV(1), name |-> StrV(RecSite), slug |-> StrV(""),
     status |-> StrV("planned"), tenant |-> ObjV(1)] }
RemoteDevices ==
  [id : {IntV(1)}, name : {StrV(RecDevice)}, device_type : {IntV(1)},
   role : {IntV(1)}, site : {IntV(1)}, status : {StrV("active"), StrV("planned")},
   serial : {StrV("SN1")}, platform : {NoneV, IntV(1)},
   primary_ip : {NoneV, IntV(1)}]

\* leaf1 after leaf1.join_site(lab-a)
Joined ==
  /\ devices = [s \in Sites |-> IF s = RecSite THEN <<RecDevice>> ELSE <<>>]
  /\ site = [d \in Devices |-> IF d = RecDevice THEN RecSite ELSE None]
  /\ last = [op |-> "join_site", self |-> RecDevice, arg |-> RecSite, exc |-> "none",
             before |-> <<>>, roundtrip |-> FALSE]

\* the states reconciliation starts from: the module as written (nb is the
\* unconnected NbConnection), or nb rebound to an inventory client; the Device
\* with its attributes assigned, joined to its Site or not; the inventory empty
\* or holding the Site's record and perhaps the Device's
InitRec ==
  /\ InitCollector
  /\ InitLoader
  /\ InitInfo
  /\ siteObj = NewSite
  /\ pass = NoPass
  /\ \/ /\ nb = "NbConnection"
        /\ InitEntity
        /\ dev = NewDevice
        /\ nbSites = <<>> /\ nbDevices = <<>>
     \/ /\ nb = "api"
        /\ dev \in LocalDevices
        /\ \/ /\ InitEntity \/ Joined
              /\ nbSites = <<>> /\ nbDevices = <<>>
           \/ /\ Joined
              /\ \E r \in RemoteSites : nbSites = <<r>>
              /\ nbDevices = <<>> \/ \E r \in RemoteDevices : nbDevices = <<r>>

NextReconcile ==
  \/ \E f \in Fails : Site_nb_create(f)
  \/ \E i \in {NoneV, IntV(1)}, f \in Fails, raw \in BOOLEAN :
       Device_nb_create(i, f, raw)

SpecReconcile == InitRec /\ [][NextReconcile]_vars

(* ---- claims about the reconciliation ---- *)

\* the fields whose local value differs from the record's: status and serial by
\* value, platform and primary IP by id
local_id(v) == IF v.k = "dict" THEN IntV(v.n) ELSE NoneV
FieldDiff(d, r) ==
  {f \in DiffFields :
     CASE f = "status" -> d.status # r.status
       [] f = "serial" -> d.serial # r.serial
       [] f = "platform" -> local_id(d.platform) # r.platform
       [] f = "primary_ip" -> local_id(d.primary_ip) # r.primary_ip}

DevicePass == pass.entity = "device" /\ pass.looked
Completed == pass.caught = "none" /\ pass.raised = "none"

\* C5: with no record for the Device's key, a reconcile pass issues exactly one
\* create and no update, and the Device's id is then the id the inventory gave.
C5_CreateAssignsId ==
  (DevicePass /\ ~pass.found /\ Completed)
    => /\ Len(pass.creates) = 1 /\ Len(pass.updates) = 0
       /\ dev.id = IntV(pass.result.n)

\* C6: with a record present and some field differing, a reconcile pass issues
\* exactly one update, whose payload holds exactly the differing fields.
C6_MinimalUpdate ==
  (DevicePass /\ pass.found /\ Completed /\ FieldDiff(pass.preDev, pass.preRec) # {})
    => /\ Len(pass.updates) = 1
       /\ DOMAIN pass.updates[1] = FieldDiff(pass.preDev, pass.preRec)

\* C7: with a record present whose status, serial, platform and primary IP equal
\* the Device's, a reconcile pass issues no update and no create.
C7_Idempotent ==
  (DevicePass /\ pass.found /\ Completed /\ FieldDiff(pass.preDev, pass.preRec) = {})
    => (Len(pass.updates) = 0 /\ Len(pass.creates) = 0)

C12_SiteAdoptsRecord ==
  (pass.entity = "site" /\ pass.found /\ Completed)
    => /\ Len(pass.creates) = 0 /\ Len(pass.updates) = 0
       /\ siteObj.slug = pass.preRec.slug
       /\ siteObj.status = pass.preRec.status
       /\ siteObj.tenant = pass.preRec.tenant
       /\ siteObj.id = pass.preRec.id

\* the local value of each field a create may carry: the ids of device type,
\* role, platform and primary IP, the site id given or else the id of the
\* Device's Site, and status and serial as they are
CreateFields == DeviceFields \ {"name"}
LocalValue(f) ==
  CASE f = "device_type" -> local_id(pass.preDev.device_type)
    [] f = "role" -> local_id(pass.preDev.device_role)
    [] f = "site" -> IF pass.site_id # NoneV THEN pass.site_id
                     ELSE IF site[RecDevice] # None THEN siteObj.id ELSE NoneV
    [] f = "status" -> pass.preDev.status
    [] f = "serial" -> pass.preDev.serial
    [] f = "platform" -> local_id(pass.preDev.platform)
    [] f = "primary_ip" -> local_id(pass.preDev.primary_ip)

\* C13: the payload of a Device create holds, among device type id, role id,
\* site id, status, serial, platform id and primary IP id, exactly the fields
\* whose local value is not None, each with that value.
C13_CreatePayload ==
  (pass.entity = "device" /\ Len(pass.creates) = 1)
    => /\ DOMAIN pass.creates[1] \ {"name"} =
            {f \in CreateFields : LocalValue(f) # NoneV}
       /\ \A f \in DOMAIN pass.creates[1] \ {"name"} :
            pass.creates[1][f] = LocalValue(f)
C13_Witness ==
  /\ pass.entity = "device" /\ Len(pass.creates) = 1
  /\ "serial" \in DOMAIN pass.creates[1]
  /\ "platform" \notin DOMAIN pass.creates[1]
  /\ "site" \in DOMAIN pass.creates[1]

\* the name of the site an inventory record is in (None for a record in no site)
record_site_name(r) ==
  IF \E j \in 1..Len(nbSites) : nbSites[j].id = r.site
    THEN nbSites[CHOOSE j \in 1..Len(nbSites) : nbSites[j].id = r.site].name
    ELSE NoneV
\* the inventory's records for the key of the Device: its name and the name of
\* its Site
KeyRecords ==
  {i \in 1..Len(nbDevices) :
     /\ nbDevices[i].name = StrV(RecDevice)
     /\ record_site_name(nbDevices[i]) =
          (IF site[RecDevice] # None THEN StrV(site[RecDevice]) ELSE NoneV)}

\* C17: after any number of passes of the Device, failed or not, the inventory
\* holds at most one record for the Device's (name, site name); a create is
\* issued only by a pass whose lookup found nothing, and no pass issues both a
\* create and an update.
C17_OneRecordPerKey ==
  /\ Cardinality(KeyRecords) <= 1
  /\ (pass.entity = "device" /\ Len(pass.creates) > 0)
       => (pass.looked /\ ~pass.found /\ Len(pass.creates) = 1
           /\ Len(pass.updates) = 0)
C17_Witness ==
  /\ nbSites = <<>> /\ Len(nbDevices) = 1 /\ KeyRecords = {1}
  /\ pass.entity = "device" /\ pass.found /\ pass.failedAt = "update"


Init == InitEntity /\ InitCollector /\ InitReconcile /\ InitLoader /\ InitInfo

NextEntity ==
  \/ \E d \in Devices, x \in Objects : join_site(d, x)
  \/ \E s \in Sites, x \in Objects : device_add(s, x)
  \/ \E s \in Sites, x \in Objects : device_remove(s, x)

NextCollector ==
  \/ \E l \in LibraryNames : NetworkCollector_new(l)
  \/ \E c \in CollectorIds, o \in AllConnectOutcomes :
       NetworkCollector_connect(c, o)
  \/ \E c \in CollectorIds, o \in CloseOutcomes : NetworkCollector_close(c, o)
  \/ \E c \in CollectorIds : NetworkCollector_get_facts(c)
  \/ \E c \in CollectorIds : NetworkCollector_get_interfaces_ip(c)
  \/ \E c \in CollectorIds : NetworkCollector_get_lldp_neighbors(c)
  \/ \E l \in LibraryNames, o \in AllConnectOutcomes, b \in BOOLEAN :
       with_NetworkCollector(l, o, b)

NextLoader == \E k \in Kinds \cup {Absent} : get_device_list_node(k)

NextInfo ==
  \/ set_credentials("admin", "admin")
  \/ \E k \in {"cisco_iol", "linux"} : assign_device_type(k)
  \/ \E l \in LibraryNames, o \in AllConnectOutcomes,
        reply \in {Raises} \cup NapalmFactsReplies \cup NetmikoFactsReplies :
       get_network_info(l, o, reply)

Next == NextEntity \/ NextCollector \/ NextReconcile \/ NextLoader \/ NextInfo

SpecEntity == Init /\ [][NextEntity]_vars
SpecCollector == Init /\ [][NextCollector]_vars
InitLoad ==
  InitEntity /\ InitCollector /\ InitReconcile /\ InitInfo /\ InitTopology
SpecLoader == InitLoad /\ [][NextLoader]_vars
SpecInfo == Init /\ [][NextInfo]_vars
Spec == Init /\ [][Next]_vars

====
